---- MODULE Spec2Model ----
(***************************************************************************)
(* A model of wistia/silence-detector: the parser of ffmpeg's              *)
(* silencedetect output (pkg/detector/detector.go, parseSilenceOutput) and *)
(* the derived predicate DetectionResult.FullySilent.                      *)
(*                                                                         *)
(* Text.  The captured output is a sequence of lines (strings.Split on     *)
(* "\n"); a line is a sequence of fields; a number's text is a sequence of *)
(* characters.  The three regular expressions are modelled by what they    *)
(* accept on that text, and strconv.ParseFloat / strconv.Atoi by what they *)
(* compute from the matched characters.                                    *)
(*                                                                         *)
(* Numbers.  A float64 number of seconds is a fixed-point integer counting *)
(* tenths of a second (3.5 s is 35): sums and differences are exact, which *)
(* is float64 arithmetic up to rounding.  FloatMax stands for              *)
(* math.MaxFloat64: ParseFloat reports a range error above it.             *)
(***************************************************************************)
EXTENDS Integers, Sequences, FiniteSets

\* ------------------------------------------------------------------ bounds

\* Largest number of lines of the captured output.
MaxLines == 3

\* The largest value (in tenths) ParseFloat converts without a range error.
FloatMax == 999

\* A DetectionResult handed to FullySilent holds at most MaxIntervals
\* intervals, with Start and End in 0..MaxCoord and InputDuration in
\* -1..MaxCoord; the tolerance is in -1..MaxTol.
MaxIntervals == 2
MaxCoord == 2
MaxTol == 1

\* ----------------------------------------------------------- number text

DigitChars == {"0", "1", "2", "3", "4", "5", "6", "7", "8", "9"}

DigitVal(c) ==
    CASE c = "0" -> 0 [] c = "1" -> 1 [] c = "2" -> 2 [] c = "3" -> 3
      [] c = "4" -> 4 [] c = "5" -> 5 [] c = "6" -> 6 [] c = "7" -> 7
      [] c = "8" -> 8 [] c = "9" -> 9

\* The length of the run [0-9]* that starts at position k of s.
RECURSIVE DigitRun(_, _)
DigitRun(s, k) ==
    IF k <= Len(s) /\ s[k] \in DigitChars THEN 1 + DigitRun(s, k + 1) ELSE 0

\* The length of the longest prefix of s that [0-9]+(?:\.[0-9]+)? matches;
\* 0 when s does not start with a digit (no match).
NumberMatch(s) ==
    LET n == DigitRun(s, 1)
        f == IF n + 1 <= Len(s) /\ s[n + 1] = "." THEN DigitRun(s, n + 2) ELSE 0
    IN  IF n = 0 THEN 0
        ELSE IF f > 0 THEN n + 1 + f
        ELSE n

\* The value of the decimal digits s[from .. from+count-1].
RECURSIVE DecimalValue(_, _, _)
DecimalValue(s, from, count) ==
    IF count = 0 THEN 0
    ELSE 10 * DecimalValue(s, from, count - 1) + DigitVal(s[from + count - 1])

\* strconv.ParseFloat(s, 64) on a text that [0-9]+(?:\.[0-9]+)? matched as a
\* whole: the value in tenths (digits after the first fractional one are
\* below the resolution), and a range error above FloatMax.
ParseFloat(s) ==
    LET n == DigitRun(s, 1)
        whole == DecimalValue(s, 1, n)
        frac  == IF n + 2 <= Len(s) THEN DigitVal(s[n + 2]) ELSE 0
        v     == 10 * whole + frac
    IN  [ok |-> v <= FloatMax, v |-> v]

\* strconv.Atoi(s) on a text that [0-9]{2} matched.
Atoi(s) == [ok |-> TRUE, v |-> DecimalValue(s, 1, Len(s))]

\* -------------------------------------------------------------- line text

\* "silence_start: <t>"
StartField(t) == [k |-> "silence_start", t |-> t]
\* "silence_end: <e> | silence_duration: <d>"
EndField(e, d) == [k |-> "silence_end", e |-> e, d |-> d]
\* "time=<h>:<m>:<s>"
TimeField(h, m, s) == [k |-> "time", h |-> h, m |-> m, s |-> s]
\* Any other text: "[silencedetect @ 0x123]", "frame= 100 fps=0.0", ...
TextField == [k |-> "text"]
\* White space.
SpaceField == [k |-> "space"]

\* strings.TrimSpace(line).
RECURSIVE TrimLeft(_)
TrimLeft(line) ==
    IF line # <<>> /\ Head(line) = SpaceField THEN TrimLeft(Tail(line)) ELSE line

RECURSIVE TrimRight(_)
TrimRight(line) ==
    IF line # <<>> /\ line[Len(line)] = SpaceField
    THEN TrimRight(SubSeq(line, 1, Len(line) - 1))
    ELSE line

TrimSpace(line) == TrimRight(TrimLeft(line))

\* Whether silenceStartPattern matches at field f.
StartFieldMatches(f) == f.k = "silence_start" /\ NumberMatch(f.t) > 0

\* Whether silenceEndPattern matches at field f: the end's number must run up
\* to the "|", the duration's number may be followed by anything.
EndFieldMatches(f) ==
    /\ f.k = "silence_end"
    /\ Len(f.e) > 0 /\ NumberMatch(f.e) = Len(f.e)
    /\ NumberMatch(f.d) > 0

TwoDigits(s) == Len(s) = 2 /\ s[1] \in DigitChars /\ s[2] \in DigitChars

\* Whether progressTimePattern matches at field f.
TimeFieldMatches(f) ==
    /\ f.k = "time"
    /\ TwoDigits(f.h) /\ TwoDigits(f.m)
    /\ NumberMatch(f.s) > 0

Min(S) == CHOOSE x \in S : \A y \in S : x <= y
Max(S) == CHOOSE x \in S : \A y \in S : x >= y

\* FindStringSubmatch: the leftmost match in the line, as the index of its
\* field; 0 when the pattern matches nowhere.
StartMatch(line) ==
    LET S == {j \in 1..Len(line) : StartFieldMatches(line[j])}
    IN  IF S = {} THEN 0 ELSE Min(S)

EndMatch(line) ==
    LET S == {j \in 1..Len(line) : EndFieldMatches(line[j])}
    IN  IF S = {} THEN 0 ELSE Min(S)

TimeMatch(line) ==
    LET S == {j \in 1..Len(line) : TimeFieldMatches(line[j])}
    IN  IF S = {} THEN 0 ELSE Min(S)

\* matches[n]: the text a number group captured.
Captured(s) == SubSeq(s, 1, NumberMatch(s))

\* float64(hours*3600+minutes*60) + seconds, in tenths.
ProgressSeconds(hours, minutes, seconds) ==
    10 * (hours * 3600 + minutes * 60) + seconds

NoErr == "nil"

\* One iteration of the loop over the lines, up to the state it changes: which
\* shape the line has (start, then end, then progress; "blank" and "none"
\* otherwise), the numbers parsed from it (a, b) and the error returned when
\* a conversion fails.
Classify(rawLine) ==
    LET line == TrimSpace(rawLine)
        si   == StartMatch(line)
        ei   == EndMatch(line)
        ti   == TimeMatch(line)
    IN  IF line = <<>> THEN
            [type |-> "blank", err |-> NoErr, a |-> 0, b |-> 0]
        ELSE IF si # 0 THEN
            LET start == ParseFloat(Captured(line[si].t))
            IN  IF ~start.ok
                THEN [type |-> "start", err |-> "parse silence start", a |-> 0, b |-> 0]
                ELSE [type |-> "start", err |-> NoErr, a |-> start.v, b |-> 0]
        ELSE IF ei # 0 THEN
            LET end      == ParseFloat(Captured(line[ei].e))
                duration == ParseFloat(Captured(line[ei].d))
            IN  IF ~end.ok
                THEN [type |-> "end", err |-> "parse silence end", a |-> 0, b |-> 0]
                ELSE IF ~duration.ok
                THEN [type |-> "end", err |-> "parse silence duration", a |-> 0, b |-> 0]
                ELSE [type |-> "end", err |-> NoErr, a |-> end.v, b |-> duration.v]
        ELSE IF ti # 0 THEN
            LET hours   == Atoi(line[ti].h)
                minutes == Atoi(line[ti].m)
                seconds == ParseFloat(Captured(line[ti].s))
            IN  IF ~hours.ok
                THEN [type |-> "progress", err |-> "parse progress hours", a |-> 0, b |-> 0]
                ELSE IF ~minutes.ok
                THEN [type |-> "progress", err |-> "parse progress minutes", a |-> 0, b |-> 0]
                ELSE IF ~seconds.ok
                THEN [type |-> "progress", err |-> "parse progress seconds", a |-> 0, b |-> 0]
                ELSE [type |-> "progress", err |-> NoErr,
                      a |-> ProgressSeconds(hours.v, minutes.v, seconds.v), b |-> 0]
        ELSE [type |-> "none", err |-> NoErr, a |-> 0, b |-> 0]

\* ------------------------------------------------------------- the inputs

Deco(f) == <<TextField, f>>

\* The lines the captured output is made of: what ffmpeg prints, lines whose
\* numbers disagree with each other, and lines whose numbers do not convert.
LineSet ==
    { Deco(StartField(<<"1">>)),
      Deco(StartField(<<"3">>)),
      Deco(EndField(<<"3">>, <<"2">>)),
      Deco(EndField(<<"5">>, <<"2">>)),
      Deco(EndField(<<"5">>, <<"5">>)),
      Deco(EndField(<<"1">>, <<"3">>)),
      <<TextField, TimeField(<<"0", "0">>, <<"0", "0">>, <<"3">>), TextField>>,
      <<TextField, TimeField(<<"0", "0">>, <<"0", "0">>, <<"5">>), TextField>>,
      <<TextField, TimeField(<<"0", "1">>, <<"0", "1">>, <<"1", ".", "5">>), TextField>>,
      <<SpaceField>>,
      <<SpaceField, TextField, SpaceField>>,
      <<StartField(<<"x">>)>>,
      Deco(StartField(<<"9", "9", "9">>)),
      Deco(EndField(<<"5">>, <<"9", "9", "9">>)),
      <<TimeField(<<"0", "0">>, <<"0", "0">>, <<"9", "9", "9">>)>>,
      <<TimeField(<<"0", "0">>, <<"0", "0">>, <<"3">>), EndField(<<"5">>, <<"2">>)>>,
      <<TimeField(<<"0", "0">>, <<"0", "0">>, <<"5">>), EndField(<<"5">>, <<"2">>),
        StartField(<<"1">>)>> }

\* The event each line of LineSet carries.
EventOfLine == [line \in LineSet |-> Classify(line)]

RECURSIVE SeqsUpTo(_, _)
SeqsUpTo(S, n) ==
    IF n = 0 THEN {<<>>}
    ELSE LET shorter == SeqsUpTo(S, n - 1)
         IN  shorter \cup {Append(s, x) : s \in {t \in shorter : Len(t) = n - 1}, x \in S}

\* ------------------------------------------------------------------ state

VARIABLES
    output,        \* parseSilenceOutput's argument, split into lines
    i,             \* the number of lines the loop has consumed
    intervals,     \* var intervals []SilenceInterval
    currentStart,  \* var currentStart *float64: <<>> is nil, <<t>> points to t
    lastProgress,  \* var lastProgress float64
    pc,            \* "scan": in the loop; "done": returned
    retIntervals,  \* the returned []SilenceInterval (<<>> is nil)
    retDuration,   \* the returned float64
    retErr,        \* the returned error (NoErr is nil)
    r,             \* FullySilent's receiver, a DetectionResult
    tolerance,     \* FullySilent's argument
    fpc,           \* FullySilent: "entry", "walk", "last", "done" ("idle": not called)
    prevEnd,       \* FullySilent's prevEnd
    fk,            \* the number of intervals FullySilent's loop has visited
    fsResult,      \* the bool FullySilent returned
    opts,          \* the options NewDetector was given
    detector,      \* the *Detector NewDetector built
    inputPath,     \* DetectSilence's inputPath
    options,       \* DetectSilence's DetectionOptions
    runOutput,     \* the bytes the command runner returns, split into lines
    runErr,        \* the error the command runner returns (NoErr is nil)
    calls,         \* the invocations the command runner has received
    parsed,        \* the texts handed to parseSilenceOutput
    dpc,           \* DetectSilence: "entry", "run", "parse", "done" ("idle": not called)
    dsResult,      \* the DetectionResult DetectSilence returned
    dsErr,         \* the error DetectSilence returned (NoErr is nil)
    dsWraps,       \* the error dsErr wraps with %w (NoErr: none)
    checkFullSilence,  \* main: the --check-full-silence flag
    requestedFormat,   \* main: requestedFormat, "text" or "json"
    stdout,        \* main: what was written to os.Stdout
    stderr,        \* main: what was written to os.Stderr
    exitCode,      \* main: the exit status, once cpc is "exited"
    cpc,           \* main: "detect", "duration", "emit", "exited" ("idle": not run)
    runs,          \* concurrent parseSilenceOutput calls: the locals of each
    threshold,     \* the threshold Detector's field
    thCalls        \* the threshold Detector: the calls made and what each returned

parseVars == <<output, i, intervals, currentStart, lastProgress, pc,
               retIntervals, retDuration, retErr>>

fsVars == <<r, tolerance, fpc, prevEnd, fk, fsResult>>

dsVars == <<opts, detector, inputPath, options, runOutput, runErr, calls, parsed, dpc,
            dsResult, dsErr, dsWraps>>

cliVars == <<checkFullSilence, requestedFormat, stdout, stderr, exitCode, cpc>>

thVars == <<threshold, thCalls>>

vars == <<parseVars, fsVars, dsVars, cliVars, runs, thVars>>

\* What a step of parseSilenceOutput, of FullySilent, of DetectSilence and of
\* main cannot touch.
outsideParse == <<fsVars, dsVars, cliVars, runs, thVars>>

outsideFS == <<parseVars, dsVars, cliVars, runs, thVars>>

outsideDS == <<parseVars, fsVars, cliVars, runs, thVars>>

outsideCLI == <<parseVars, fsVars, runs, thVars>>

Nil == <<>>

SilenceInterval(start, end, duration) ==
    [Start |-> start, End |-> end, Duration |-> duration]

DetectionResult(ivs, inputDuration) ==
    [Intervals |-> ivs, InputDuration |-> inputDuration]

\* FullySilent is not running.
FSIdle ==
    /\ r = DetectionResult(<<>>, 0)
    /\ tolerance = 0
    /\ fpc = "idle"
    /\ prevEnd = 0
    /\ fk = 0
    /\ fsResult = FALSE

DetectionOptions(noiseLevel, minSilenceDuration) ==
    [NoiseLevel |-> noiseLevel, MinSilenceDuration |-> minSilenceDuration]

\* DetectSilence is not running.
DSIdle ==
    /\ opts = <<>>
    /\ detector = [ffmpegPath |-> ""]
    /\ inputPath = ""
    /\ options = DetectionOptions(0, 0)
    /\ runOutput = <<>>
    /\ runErr = NoErr
    /\ calls = <<>>
    /\ parsed = <<>>
    /\ dpc = "idle"
    /\ dsResult = DetectionResult(<<>>, 0)
    /\ dsErr = NoErr
    /\ dsWraps = NoErr

\* main is not running.
CLIIdle ==
    /\ checkFullSilence = FALSE
    /\ requestedFormat = "text"
    /\ stdout = <<>>
    /\ stderr = <<>>
    /\ exitCode = 0
    /\ cpc = "idle"

\* No concurrent calls.
RunsIdle == runs = <<>>

\* No threshold Detector.
ThIdle ==
    /\ threshold = 0
    /\ thCalls = <<>>

Init ==
    /\ FSIdle
    /\ DSIdle
    /\ CLIIdle
    /\ RunsIdle
    /\ ThIdle
    /\ output \in SeqsUpTo(LineSet, MaxLines)
    /\ i = 0
    /\ intervals = <<>>
    /\ currentStart = Nil
    /\ lastProgress = 0
    /\ pc = "scan"
    /\ retIntervals = <<>>
    /\ retDuration = 0
    /\ retErr = NoErr

\* return nil, 0, err
ReturnError(err) ==
    /\ pc' = "done"
    /\ retIntervals' = <<>>
    /\ retDuration' = 0
    /\ retErr' = err
    /\ UNCHANGED <<output, i, intervals, currentStart, lastProgress>>
    /\ UNCHANGED outsideParse

\* The loop goes on to the next line.
Continue ==
    /\ i' = i + 1
    /\ UNCHANGED <<output, pc, retIntervals, retDuration, retErr>>
    /\ UNCHANGED outsideParse

InLoop == pc = "scan" /\ i < Len(output)

\* if line == "" { continue }
SkipBlank ==
    /\ InLoop
    /\ Classify(output[i + 1]).type = "blank"
    /\ Continue
    /\ UNCHANGED <<intervals, currentStart, lastProgress>>

\* Mutant of StartLine: a start whose number does not convert is skipped.
StartLine_skipsMalformed ==
    /\ InLoop
    /\ LET ev == Classify(output[i + 1])
       IN  /\ ev.type = "start"
           /\ IF ev.err # NoErr
              THEN /\ Continue
                   /\ UNCHANGED <<intervals, currentStart, lastProgress>>
              ELSE /\ currentStart' = <<ev.a>>
                   /\ Continue
                   /\ UNCHANGED <<intervals, lastProgress>>

\* Mutants of StartLine: without its continue the line goes on to the
\* progress pattern; a start that is still pending is kept.
StartLine_fallsThrough ==
    /\ InLoop
    /\ LET ev == Classify(output[i + 1])
           line == TrimSpace(output[i + 1])
       IN  /\ ev.type = "start"
           /\ IF ev.err # NoErr
              THEN ReturnError(ev.err)
              ELSE /\ currentStart' = <<ev.a>>
                   /\ Continue
                   /\ lastProgress' =
                        IF TimeMatch(line) # 0
                        THEN ProgressSeconds(Atoi(line[TimeMatch(line)].h).v,
                                             Atoi(line[TimeMatch(line)].m).v,
                                             ParseFloat(Captured(line[TimeMatch(line)].s)).v)
                        ELSE lastProgress
                   /\ UNCHANGED intervals

StartLine_firstWins ==
    /\ InLoop
    /\ LET ev == Classify(output[i + 1])
       IN  /\ ev.type = "start"
           /\ IF ev.err # NoErr
              THEN ReturnError(ev.err)
              ELSE /\ currentStart' = IF currentStart # Nil THEN currentStart ELSE <<ev.a>>
                   /\ Continue
                   /\ UNCHANGED <<intervals, lastProgress>>

\* A line silenceStartPattern matches.
StartLine ==
    /\ InLoop
    /\ LET ev == Classify(output[i + 1])
       IN  /\ ev.type = "start"
           /\ IF ev.err # NoErr
              THEN ReturnError(ev.err)
              ELSE /\ currentStart' = <<ev.a>>
                   /\ Continue
                   /\ UNCHANGED <<intervals, lastProgress>>

\* Mutants of IntervalStart: the fallback forgets the duration; the pending
\* start is ignored; the fallback subtracts the wrong way round.
IntervalStart_endOnly(cs, end, duration) ==
    IF cs # Nil THEN cs[1] ELSE end

IntervalStart_ignoresPending(cs, end, duration) == end - duration

IntervalStart_swapped(cs, end, duration) ==
    IF cs # Nil THEN cs[1] ELSE duration - end

\* start := end - duration; if currentStart != nil { start = *currentStart }
IntervalStart(cs, end, duration) ==
    IF cs # Nil THEN cs[1] ELSE end - duration

\* Mutants of EndLine: the pending start is not cleared; the interval is put
\* in front of the list.
EndLine_keepsStart ==
    /\ InLoop
    /\ LET ev == Classify(output[i + 1])
       IN  /\ ev.type = "end"
           /\ IF ev.err # NoErr
              THEN ReturnError(ev.err)
              ELSE /\ intervals' = Append(intervals,
                          SilenceInterval(IntervalStart(currentStart, ev.a, ev.b),
                                          ev.a, ev.b))
                   /\ Continue
                   /\ UNCHANGED <<currentStart, lastProgress>>

EndLine_prepends ==
    /\ InLoop
    /\ LET ev == Classify(output[i + 1])
       IN  /\ ev.type = "end"
           /\ IF ev.err # NoErr
              THEN ReturnError(ev.err)
              ELSE /\ intervals' =
                          <<SilenceInterval(IntervalStart(currentStart, ev.a, ev.b),
                                            ev.a, ev.b)>> \o intervals
                   /\ currentStart' = Nil
                   /\ Continue
                   /\ UNCHANGED lastProgress

\* Mutant of EndLine: an interval that touches or overlaps the last one is
\* merged into it.
EndLine_merges ==
    /\ InLoop
    /\ LET ev == Classify(output[i + 1])
           start == IntervalStart(currentStart, ev.a, ev.b)
           n == Len(intervals)
       IN  /\ ev.type = "end"
           /\ IF ev.err # NoErr
              THEN ReturnError(ev.err)
              ELSE /\ intervals' =
                        IF n > 0 /\ start <= intervals[n].End
                        THEN [intervals EXCEPT ![n] =
                                 SilenceInterval(intervals[n].Start, ev.a,
                                                 ev.a - intervals[n].Start)]
                        ELSE Append(intervals, SilenceInterval(start, ev.a, ev.b))
                   /\ currentStart' = Nil
                   /\ Continue
                   /\ UNCHANGED lastProgress

\* A line silenceEndPattern matches.
EndLine ==
    /\ InLoop
    /\ LET ev == Classify(output[i + 1])
       IN  /\ ev.type = "end"
           /\ IF ev.err # NoErr
              THEN ReturnError(ev.err)
              ELSE /\ intervals' = Append(intervals,
                          SilenceInterval(IntervalStart(currentStart, ev.a, ev.b),
                                          ev.a, ev.b))
                   /\ currentStart' = Nil
                   /\ Continue
                   /\ UNCHANGED lastProgress

\* Mutant of ProgressLine: the progress never goes back.
ProgressLine_keepsMax ==
    /\ InLoop
    /\ LET ev == Classify(output[i + 1])
       IN  /\ ev.type = "progress"
           /\ IF ev.err # NoErr
              THEN ReturnError(ev.err)
              ELSE /\ lastProgress' = IF ev.a > lastProgress THEN ev.a ELSE lastProgress
                   /\ Continue
                   /\ UNCHANGED <<intervals, currentStart>>

\* A line progressTimePattern matches.
ProgressLine ==
    /\ InLoop
    /\ LET ev == Classify(output[i + 1])
       IN  /\ ev.type = "progress"
           /\ IF ev.err # NoErr
              THEN ReturnError(ev.err)
              ELSE /\ lastProgress' = ev.a
                   /\ Continue
                   /\ UNCHANGED <<intervals, currentStart>>

\* Mutant of OtherLine: a line without a marker ends the pending silence.
OtherLine_resetsStart ==
    /\ InLoop
    /\ Classify(output[i + 1]).type = "none"
    /\ Continue
    /\ currentStart' = Nil
    /\ UNCHANGED <<intervals, lastProgress>>

\* A line none of the patterns matches.
OtherLine ==
    /\ InLoop
    /\ Classify(output[i + 1]).type = "none"
    /\ Continue
    /\ UNCHANGED <<intervals, currentStart, lastProgress>>

\* Mutant of TrailingSilence: a progress equal to the start closes it too.
TrailingSilence_orEqual(cs, progress) == cs # Nil /\ progress >= cs[1]

\* Mutant of TrailingSilence: a pending start is closed at the end of the
\* stream whatever the last progress is.
TrailingSilence_anyProgress(cs, progress) == cs # Nil

\* if currentStart != nil && lastProgress > *currentStart
TrailingSilence(cs, progress) == cs # Nil /\ progress > cs[1]

\* Mutant of Finish: at the end of the stream every interval that ends
\* after the last progress is cut back to it.
Finish_clampsEnds ==
    /\ pc = "scan"
    /\ i = Len(output)
    /\ LET clamped ==
             [k \in 1..Len(intervals) |->
                 IF intervals[k].End > lastProgress
                 THEN [intervals[k] EXCEPT !.End = lastProgress]
                 ELSE intervals[k]]
           final ==
             IF TrailingSilence(currentStart, lastProgress)
             THEN Append(clamped,
                         SilenceInterval(currentStart[1], lastProgress,
                                         lastProgress - currentStart[1]))
             ELSE clamped
       IN  /\ intervals' = final
           /\ retIntervals' = final
    /\ retDuration' = lastProgress
    /\ retErr' = NoErr
    /\ pc' = "done"
    /\ UNCHANGED <<output, i, currentStart, lastProgress>>
    /\ UNCHANGED outsideParse

\* After the loop: the trailing interval, and the return.
Finish ==
    /\ pc = "scan"
    /\ i = Len(output)
    /\ LET final ==
             IF TrailingSilence(currentStart, lastProgress)
             THEN Append(intervals,
                         SilenceInterval(currentStart[1], lastProgress,
                                         lastProgress - currentStart[1]))
             ELSE intervals
       IN  /\ intervals' = final
           /\ retIntervals' = final
    /\ retDuration' = lastProgress
    /\ retErr' = NoErr
    /\ pc' = "done"
    /\ UNCHANGED <<output, i, currentStart, lastProgress>>
    /\ UNCHANGED outsideParse

Next ==
    \/ SkipBlank
    \/ StartLine
    \/ EndLine
    \/ ProgressLine
    \/ OtherLine
    \/ Finish

Spec == Init /\ [][Next]_vars

\* --------------------------------- parseSilenceOutput as a function of its
\* argument: the locals of one call, one step of it, and the call run to its
\* return.  A call has no other state.

ParseResult(ivs, duration, err) ==
    [Intervals |-> ivs, Duration |-> duration, Err |-> err]

\* var intervals, currentStart, lastProgress; lines := strings.Split(...)
LocalInit(lines) ==
    [output |-> lines, i |-> 0, intervals |-> <<>>, currentStart |-> Nil,
     lastProgress |-> 0, pc |-> "scan", ret |-> ParseResult(<<>>, 0, NoErr)]

\* One iteration of the loop, or the statements after it.
LocalStep(st) ==
    IF st.i < Len(st.output)
    THEN LET ev == EventOfLine[st.output[st.i + 1]]
             next == [st EXCEPT !.i = st.i + 1]
         IN  IF ev.err # NoErr
             THEN [st EXCEPT !.pc = "done", !.ret = ParseResult(<<>>, 0, ev.err)]
             ELSE IF ev.type = "start"
             THEN [next EXCEPT !.currentStart = <<ev.a>>]
             ELSE IF ev.type = "end"
             THEN [next EXCEPT
                     !.intervals = Append(st.intervals,
                         SilenceInterval(IntervalStart(st.currentStart, ev.a, ev.b),
                                         ev.a, ev.b)),
                     !.currentStart = Nil]
             ELSE IF ev.type = "progress"
             THEN [next EXCEPT !.lastProgress = ev.a]
             ELSE next
    ELSE LET final ==
               IF TrailingSilence(st.currentStart, st.lastProgress)
               THEN Append(st.intervals,
                           SilenceInterval(st.currentStart[1], st.lastProgress,
                                           st.lastProgress - st.currentStart[1]))
               ELSE st.intervals
         IN  [st EXCEPT !.pc = "done", !.intervals = final,
                        !.ret = ParseResult(final, st.lastProgress, NoErr)]

RECURSIVE LocalRun(_)
LocalRun(st) == IF st.pc = "done" THEN st.ret ELSE LocalRun(LocalStep(st))

parseSilenceOutput(lines) == LocalRun(LocalInit(lines))

\* ------------------------------------------- DetectionResult.FullySilent

\* parseSilenceOutput is not running.
ParseIdle ==
    /\ output = <<>>
    /\ i = 0
    /\ intervals = <<>>
    /\ currentStart = Nil
    /\ lastProgress = 0
    /\ pc = "idle"
    /\ retIntervals = <<>>
    /\ retDuration = 0
    /\ retErr = NoErr

\* The intervals of the results FullySilent is called on: any Start and End,
\* in any order.
IntervalSet ==
    {SilenceInterval(s, e, e - s) : s \in 0..MaxCoord, e \in 0..MaxCoord}

InitFS ==
    /\ ParseIdle
    /\ DSIdle
    /\ CLIIdle
    /\ RunsIdle
    /\ ThIdle
    /\ r \in {DetectionResult(ivs, d) :
                ivs \in SeqsUpTo(IntervalSet, MaxIntervals), d \in -1..MaxCoord}
    /\ tolerance \in -1..MaxTol
    /\ fpc = "entry"
    /\ prevEnd = 0
    /\ fk = 0
    /\ fsResult = FALSE

\* return <result>
FSReturn(result) ==
    /\ fpc' = "done"
    /\ fsResult' = result
    /\ UNCHANGED <<r, tolerance, prevEnd, fk>>
    /\ UNCHANGED outsideFS

\* Up to the loop: the empty result, the first interval, prevEnd.
FSEntry ==
    /\ fpc = "entry"
    /\ IF r.InputDuration <= 0 \/ Len(r.Intervals) = 0
       THEN FSReturn(FALSE)
       ELSE LET first == r.Intervals[1]
            IN  IF first.Start > tolerance
                THEN FSReturn(FALSE)
                ELSE /\ prevEnd' = first.End
                     /\ fk' = 1
                     /\ fpc' = "walk"
                     /\ UNCHANGED <<r, tolerance, fsResult>>
                     /\ UNCHANGED outsideFS

\* Mutant of GapExceeds: an overlap counts as a gap.
GapExceeds_eitherWay(start, prev, tol) ==
    start - prev > tol \/ prev - start > tol

\* interval.Start-prevEnd > tolerance
GapExceeds(start, prev, tol) == start - prev > tol

\* One iteration of the loop over r.Intervals[1:], or its end.
FSWalk ==
    /\ fpc = "walk"
    /\ IF fk < Len(r.Intervals)
       THEN LET interval == r.Intervals[fk + 1]
            IN  IF GapExceeds(interval.Start, prevEnd, tolerance)
                THEN FSReturn(FALSE)
                ELSE /\ prevEnd' = interval.End
                     /\ fk' = fk + 1
                     /\ UNCHANGED <<r, tolerance, fpc, fsResult>>
                     /\ UNCHANGED outsideFS
       ELSE /\ fpc' = "last"
            /\ UNCHANGED <<r, tolerance, prevEnd, fk, fsResult>>
            /\ UNCHANGED outsideFS

\* math.Abs
Abs(x) == IF x < 0 THEN -x ELSE x

\* Mutant of EndDiffers: an end short of the duration is not noticed.
EndDiffers_beyondOnly(end, inputDuration, tol) == end - inputDuration > tol

\* math.Abs(last.End-r.InputDuration) > tolerance
EndDiffers(end, inputDuration, tol) == Abs(end - inputDuration) > tol

\* After the loop: the last interval against the duration.
FSLast ==
    /\ fpc = "last"
    /\ LET last == r.Intervals[Len(r.Intervals)]
       IN  IF EndDiffers(last.End, r.InputDuration, tolerance)
           THEN FSReturn(FALSE)
           ELSE FSReturn(TRUE)

\* The loop of FullySilent from r.Intervals[k] on: no gap beyond tol.
RECURSIVE NoGapFrom(_, _, _)
NoGapFrom(ivs, k, tol) ==
    IF k > Len(ivs) THEN TRUE
    ELSE IF GapExceeds(ivs[k].Start, ivs[k - 1].End, tol) THEN FALSE
    ELSE NoGapFrom(ivs, k + 1, tol)

\* What res.FullySilent(tol) returns.
FullySilent(res, tol) ==
    IF res.InputDuration <= 0 \/ Len(res.Intervals) = 0 THEN FALSE
    ELSE IF res.Intervals[1].Start > tol THEN FALSE
    ELSE IF ~NoGapFrom(res.Intervals, 2, tol) THEN FALSE
    ELSE ~EndDiffers(res.Intervals[Len(res.Intervals)].End, res.InputDuration, tol)

NextFS ==
    \/ FSEntry
    \/ FSWalk
    \/ FSLast

SpecFS == InitFS /\ [][NextFS]_vars

\* ------------------------------------------------------------ DetectSilence

MaxOpts == 1

MaxRunLines == 2

\* The decimal digits of the natural number n.
RECURSIVE Digits(_)
Digits(n) ==
    LET last == CHOOSE c \in DigitChars : DigitVal(c) = n % 10
    IN  IF n < 10 THEN <<last>> ELSE Append(Digits(n \div 10), last)

\* strconv.FormatFloat(v, 'f', -1, 64) of a number of tenths: the sign, the
\* whole part, and the fraction only when there is one.
FormatFloat(v) ==
    LET whole == Abs(v) \div 10
        frac  == Abs(v) % 10
    IN  (IF v < 0 THEN <<"-">> ELSE <<>>)
          \o Digits(whole)
          \o (IF frac = 0 THEN <<>> ELSE <<".">> \o Digits(frac))

\* fmt.Sprintf("silencedetect=noise=%sdB:d=%s", noiseLevel, minDuration)
Filter(noiseLevel, minDuration) ==
    <<"silencedetect=noise=">> \o noiseLevel \o <<"dB:d=">> \o minDuration

\* WithFFmpegPath(path), applied to a Detector.
WithFFmpegPath(det, path) == [det EXCEPT !.ffmpegPath = path]

RECURSIVE ApplyOptions(_, _)
ApplyOptions(det, options_) ==
    IF options_ = <<>> THEN det
    ELSE ApplyOptions(WithFFmpegPath(det, Head(options_)), Tail(options_))

\* Mutant of NewDetector: the options are not applied.
NewDetector_ignoresOptions(options_) == [ffmpegPath |-> "ffmpeg"]

\* NewDetector(opts...), each option a WithFFmpegPath value.
NewDetector(options_) == ApplyOptions([ffmpegPath |-> "ffmpeg"], options_)

PathSet == {"/opt/ffmpeg/bin/ffmpeg", "ffmpeg6"}

InputPathSet == {"", "input.wav"}

\* NoiseLevel and MinSilenceDuration, in tenths.
NoiseLevelSet == {-300, -255}

MinSilenceDurationSet == {-5, 0, 5, 20}

\* What the command runner may print: markers, progress, noise, and a marker
\* whose number does not convert.
RunLineSet ==
    { Deco(StartField(<<"1">>)),
      Deco(EndField(<<"3">>, <<"2">>)),
      <<TextField, TimeField(<<"0", "0">>, <<"0", "0">>, <<"5">>), TextField>>,
      <<SpaceField, TextField, SpaceField>>,
      Deco(StartField(<<"9", "9", "9">>)) }

RunErrSet == {NoErr, "exit status 1"}

InitDS ==
    /\ ParseIdle
    /\ FSIdle
    /\ CLIIdle
    /\ RunsIdle
    /\ ThIdle
    /\ opts \in SeqsUpTo(PathSet, MaxOpts)
    /\ detector = NewDetector(opts)
    /\ inputPath \in InputPathSet
    /\ options \in {DetectionOptions(n, m) :
                       n \in NoiseLevelSet, m \in MinSilenceDurationSet}
    /\ runOutput \in SeqsUpTo(RunLineSet, MaxRunLines)
    /\ runErr \in RunErrSet
    /\ calls = <<>>
    /\ parsed = <<>>
    /\ dpc = "entry"
    /\ dsResult = DetectionResult(<<>>, 0)
    /\ dsErr = NoErr
    /\ dsWraps = NoErr

\* return DetectionResult{}, err
DSReturnError(err, wrapped) ==
    /\ dpc' = "done"
    /\ dsResult' = DetectionResult(<<>>, 0)
    /\ dsErr' = err
    /\ dsWraps' = wrapped

\* Mutant of DetectSilenceEntry: the duration is not validated.
DetectSilenceEntry_anyDuration ==
    /\ dpc = "entry"
    /\ IF inputPath = ""
       THEN DSReturnError("input path is required", NoErr)
       ELSE /\ dpc' = "run"
            /\ UNCHANGED <<dsResult, dsErr, dsWraps>>
    /\ UNCHANGED <<opts, detector, inputPath, options, runOutput, runErr, calls, parsed>>
    /\ UNCHANGED outsideDS

\* The two validations at the top of DetectSilence.
DetectSilenceEntry ==
    /\ dpc = "entry"
    /\ IF inputPath = ""
       THEN DSReturnError("input path is required", NoErr)
       ELSE IF options.MinSilenceDuration <= 0
       THEN DSReturnError("minimum silence duration must be greater than zero", NoErr)
       ELSE /\ dpc' = "run"
            /\ UNCHANGED <<dsResult, dsErr, dsWraps>>
    /\ UNCHANGED <<opts, detector, inputPath, options, runOutput, runErr, calls, parsed>>
    /\ UNCHANGED outsideDS

\* Mutant of DetectSilenceRun: the runner's error is dropped and the output
\* goes on to the parser.
DetectSilenceRun_ignoresError ==
    /\ dpc = "run"
    /\ LET noiseLevel == FormatFloat(options.NoiseLevel)
           minDuration == FormatFloat(options.MinSilenceDuration)
           filter == Filter(noiseLevel, minDuration)
           args == <<"-i", inputPath, "-af", filter, "-f", "null", "-">>
       IN  calls' = Append(calls, [name |-> detector.ffmpegPath, args |-> args])
    /\ dpc' = "parse"
    /\ UNCHANGED <<dsResult, dsErr, dsWraps>>
    /\ UNCHANGED <<opts, detector, inputPath, options, runOutput, runErr, parsed>>
    /\ UNCHANGED outsideDS

\* The filter, the argument list, the call of d.run and its error branch.
\* The message of the error also carries the trimmed output, as text.
DetectSilenceRun ==
    /\ dpc = "run"
    /\ LET noiseLevel == FormatFloat(options.NoiseLevel)
           minDuration == FormatFloat(options.MinSilenceDuration)
           filter == Filter(noiseLevel, minDuration)
           args == <<"-i", inputPath, "-af", filter, "-f", "null", "-">>
       IN  calls' = Append(calls, [name |-> detector.ffmpegPath, args |-> args])
    /\ IF runErr # NoErr
       THEN DSReturnError("ffmpeg execution failed", runErr)
       ELSE /\ dpc' = "parse"
            /\ UNCHANGED <<dsResult, dsErr, dsWraps>>
    /\ UNCHANGED <<opts, detector, inputPath, options, runOutput, runErr, parsed>>
    /\ UNCHANGED outsideDS

\* The call of parseSilenceOutput and the two returns after it.
DetectSilenceParse ==
    /\ dpc = "parse"
    /\ parsed' = Append(parsed, runOutput)
    /\ LET p == parseSilenceOutput(runOutput)
       IN  IF p.Err # NoErr
           THEN DSReturnError(p.Err, NoErr)
           ELSE /\ dpc' = "done"
                /\ dsResult' = DetectionResult(p.Intervals, p.Duration)
                /\ dsErr' = NoErr
                /\ dsWraps' = NoErr
    /\ UNCHANGED <<opts, detector, inputPath, options, runOutput, runErr, calls>>
    /\ UNCHANGED outsideDS

NextDS ==
    \/ DetectSilenceEntry
    \/ DetectSilenceRun
    \/ DetectSilenceParse

SpecDS == InitDS /\ [][NextDS]_vars

\* --------------------------------------------------------------------- main

\* The 1e-3 main passes to FullySilent: below the tenth times are counted in.
CLITolerance == 0

\* What ffmpeg prints in the runs of main: an interval over the whole input,
\* a start, the progress, and a marker whose number does not convert.
CLILineSet ==
    { Deco(EndField(<<"5">>, <<"5">>)),
      Deco(StartField(<<"1">>)),
      <<TextField, TimeField(<<"0", "0">>, <<"0", "0">>, <<"5">>), TextField>>,
      Deco(StartField(<<"9", "9", "9">>)) }

\* main after its flags are validated and NewDetector is built, about to
\* call DetectSilence.
InitCLI ==
    /\ ParseIdle
    /\ FSIdle
    /\ RunsIdle
    /\ ThIdle
    /\ opts = <<"ffmpeg">>
    /\ detector = NewDetector(opts)
    /\ inputPath = "input.wav"
    /\ options = DetectionOptions(-300, 5)
    /\ runOutput \in SeqsUpTo(CLILineSet, MaxRunLines)
    /\ runErr \in RunErrSet
    /\ calls = <<>>
    /\ parsed = <<>>
    /\ dpc = "entry"
    /\ dsResult = DetectionResult(<<>>, 0)
    /\ dsErr = NoErr
    /\ dsWraps = NoErr
    /\ checkFullSilence \in BOOLEAN
    /\ requestedFormat \in {"text", "json"}
    /\ stdout = <<>>
    /\ stderr = <<>>
    /\ exitCode = 0
    /\ cpc = "detect"

\* fmt.Fprint(os.Stderr, ...); os.Exit(1)
Fail(message) ==
    /\ stderr' = Append(stderr, message)
    /\ exitCode' = 1
    /\ cpc' = "exited"
    /\ UNCHANGED stdout

\* DetectSilence has returned: if err != nil.
CheckDetection ==
    /\ cpc = "detect"
    /\ dpc = "done"
    /\ IF dsErr # NoErr
       THEN Fail("silence detection failed")
       ELSE /\ cpc' = "duration"
            /\ UNCHANGED <<stdout, stderr, exitCode>>
    /\ UNCHANGED <<checkFullSilence, requestedFormat>>
    /\ UNCHANGED <<dsVars, outsideCLI>>

\* Mutant of CheckDuration: the duration is not looked at.
CheckDuration_skipped ==
    /\ cpc = "duration"
    /\ cpc' = "emit"
    /\ UNCHANGED <<stdout, stderr, exitCode>>
    /\ UNCHANGED <<checkFullSilence, requestedFormat>>
    /\ UNCHANGED <<dsVars, outsideCLI>>

\* if *checkFullSilence && result.InputDuration <= 0
CheckDuration ==
    /\ cpc = "duration"
    /\ IF checkFullSilence /\ dsResult.InputDuration <= 0
       THEN Fail("ffmpeg output did not include duration information; cannot determine full silence")
       ELSE /\ cpc' = "emit"
            /\ UNCHANGED <<stdout, stderr, exitCode>>
    /\ UNCHANGED <<checkFullSilence, requestedFormat>>
    /\ UNCHANGED <<dsVars, outsideCLI>>

\* The report emitJSON encodes; fully_silent is <<>> when the pointer is nil.
\* Encode cannot fail on the finite numbers of a result.
EmitJSON ==
    /\ cpc = "emit"
    /\ requestedFormat = "json"
    /\ LET fullySilent == IF checkFullSilence
                          THEN <<FullySilent(dsResult, CLITolerance)>>
                          ELSE <<>>
       IN  stdout' = Append(stdout, [line |-> "json",
                                     duration |-> dsResult.InputDuration,
                                     fully_silent |-> fullySilent,
                                     intervals |-> dsResult.Intervals])
    /\ exitCode' = 0
    /\ cpc' = "exited"
    /\ UNCHANGED <<checkFullSilence, requestedFormat, stderr>>
    /\ UNCHANGED <<dsVars, outsideCLI>>

TextLine(text) == [line |-> text]

\* The lines emitText prints.
EmitText ==
    /\ cpc = "emit"
    /\ requestedFormat # "json"
    /\ LET head == <<TextLine("Silence detection for"), TextLine("Noise threshold")>>
                     \o (IF dsResult.InputDuration > 0
                         THEN <<TextLine("Input duration")>> ELSE <<>>)
           n == Len(dsResult.Intervals)
       IN  stdout' = stdout \o head \o
              (IF n = 0
               THEN <<TextLine("No silence intervals detected.")>>
                      \o (IF checkFullSilence
                          THEN <<TextLine("Entire file is not silent.")>> ELSE <<>>)
               ELSE <<TextLine("Detected silence interval(s)")>>
                      \o [k \in 1..n |-> [line |-> "interval",
                                          interval |-> dsResult.Intervals[k]]]
                      \o (IF checkFullSilence
                          THEN IF FullySilent(dsResult, CLITolerance)
                               THEN <<TextLine("Entire file is silent.")>>
                               ELSE <<TextLine("Entire file is not silent.")>>
                          ELSE <<>>))
    /\ exitCode' = 0
    /\ cpc' = "exited"
    /\ UNCHANGED <<checkFullSilence, requestedFormat, stderr>>
    /\ UNCHANGED <<dsVars, outsideCLI>>

NextCLI ==
    \/ DetectSilenceEntry
    \/ DetectSilenceRun
    \/ DetectSilenceParse
    \/ CheckDetection
    \/ CheckDuration
    \/ EmitJSON
    \/ EmitText

SpecCLI == InitCLI /\ [][NextCLI]_vars

\* ----------------------------------------------------------- concurrent calls

MaxConcLines == 2

\* The goroutines that call parseSilenceOutput at the same time.
Runs == {"a", "b"}

ConcLineSet ==
    { Deco(StartField(<<"1">>)),
      Deco(EndField(<<"3">>, <<"2">>)),
      <<TextField, TimeField(<<"0", "0">>, <<"0", "0">>, <<"5">>), TextField>>,
      Deco(StartField(<<"9", "9", "9">>)) }

\* Each call has its own argument and its own three locals.
InitConc ==
    /\ ParseIdle
    /\ FSIdle
    /\ DSIdle
    /\ CLIIdle
    /\ ThIdle
    /\ runs \in [Runs -> {LocalInit(lines) :
                              lines \in SeqsUpTo(ConcLineSet, MaxConcLines)}]

\* Mutant of RunStep: lastProgress is a package-level variable, the one
\* value all the calls read and write.
RunStep_sharedProgress(p) ==
    /\ runs[p].pc = "scan"
    /\ LET q == CHOOSE q \in Runs :
                    \A o \in Runs : runs[q].lastProgress >= runs[o].lastProgress
           st == LocalStep([runs[p] EXCEPT !.lastProgress = runs[q].lastProgress])
       IN  runs' = [o \in Runs |-> IF o = p THEN st
                                   ELSE [runs[o] EXCEPT !.lastProgress = st.lastProgress]]
    /\ UNCHANGED <<parseVars, fsVars, dsVars, cliVars, thVars>>

\* One step of the call p: it reads its own locals and the three patterns,
\* which no call writes, and writes its own locals.
RunStep(p) ==
    /\ runs[p].pc = "scan"
    /\ runs' = [runs EXCEPT ![p] = LocalStep(runs[p])]
    /\ UNCHANGED <<parseVars, fsVars, dsVars, cliVars, thVars>>

NextConc == \E p \in Runs : RunStep(p)

SpecConc == InitConc /\ [][NextConc]_vars

\* ------------------------------------------------- the threshold Detector

MaxCalls == 3

\* The threshold NewDetector sets, 0.01, in thousandths as all levels here.
DefaultThreshold == 10

LevelSet == {-10, 0, 5, 10, 20, 50, 500}

\* A call and what it returned: value for GetThreshold, silent for IsSilent.
Call(op, arg, value, silent) ==
    [op |-> op, arg |-> arg, value |-> value, silent |-> silent]

\* NewDetector()
InitTh ==
    /\ ParseIdle
    /\ FSIdle
    /\ DSIdle
    /\ CLIIdle
    /\ RunsIdle
    /\ threshold = DefaultThreshold
    /\ thCalls = <<>>

SetThreshold ==
    /\ Len(thCalls) < MaxCalls
    /\ \E t \in LevelSet :
          /\ threshold' = t
          /\ thCalls' = Append(thCalls, Call("SetThreshold", t, 0, FALSE))
    /\ UNCHANGED <<parseVars, fsVars, dsVars, cliVars, runs>>

GetThreshold ==
    /\ Len(thCalls) < MaxCalls
    /\ thCalls' = Append(thCalls, Call("GetThreshold", 0, threshold, FALSE))
    /\ UNCHANGED threshold
    /\ UNCHANGED <<parseVars, fsVars, dsVars, cliVars, runs>>

\* Mutant of IsSilent: a level at the threshold counts as silent.
IsSilent_orEqual ==
    /\ Len(thCalls) < MaxCalls
    /\ \E level \in LevelSet :
          thCalls' = Append(thCalls, Call("IsSilent", level, 0, level <= threshold))
    /\ UNCHANGED threshold
    /\ UNCHANGED <<parseVars, fsVars, dsVars, cliVars, runs>>

\* return level < d.threshold
IsSilent ==
    /\ Len(thCalls) < MaxCalls
    /\ \E level \in LevelSet :
          thCalls' = Append(thCalls, Call("IsSilent", level, 0, level < threshold))
    /\ UNCHANGED threshold
    /\ UNCHANGED <<parseVars, fsVars, dsVars, cliVars, runs>>

NextTh ==
    \/ SetThreshold
    \/ GetThreshold
    \/ IsSilent

SpecTh == InitTh /\ [][NextTh]_vars

\* ------------------------------------------------- the events of the input
\* What the claims call the event sequence, read off the input itself.

\* The event line k of the input carries.
Ev(k) == EventOfLine[output[k]]

IsEvent(k) == Ev(k).type \in {"start", "end", "progress"}

\* The call returned without an error.
Accepted == pc = "done" /\ retErr = NoErr

\* The lines among the first n that are SilenceEnd events, in input order.
RECURSIVE EndLinesUpTo(_)
EndLinesUpTo(n) ==
    IF n = 0 THEN <<>>
    ELSE IF Ev(n).type = "end" THEN Append(EndLinesUpTo(n - 1), n)
    ELSE EndLinesUpTo(n - 1)

EndLines == EndLinesUpTo(Len(output))

\* The SilenceStart that is pending (seen, and not consumed by a SilenceEnd)
\* just before line k: Nil, or <<t>>.
PendingBefore(k) ==
    LET S == {j \in 1..(k - 1) : Ev(j).type \in {"start", "end"}}
    IN  IF S = {} \/ Ev(Max(S)).type = "end" THEN Nil ELSE <<Ev(Max(S)).a>>

\* The line of the SilenceStart that is pending just before line k (0: none).
PendingLineBefore(k) ==
    LET S == {j \in 1..(k - 1) : Ev(j).type \in {"start", "end"}}
    IN  IF S = {} \/ Ev(Max(S)).type = "end" THEN 0 ELSE Max(S)

\* The Progress events among lines from..to.
ProgressLines(from, to) == {j \in from..to : Ev(j).type = "progress"}

\* The timestamp of the last Progress event among lines from..to, 0 if none.
LastProgressIn(from, to) ==
    LET P == ProgressLines(from, to)
    IN  IF P = {} THEN 0 ELSE Ev(Max(P)).a

\* The start still pending when the input ends.
Dangling == PendingBefore(Len(output) + 1)
DanglingLine == PendingLineBefore(Len(output) + 1)

\* Event timestamps are non-decreasing in input order.
TimestampsOrdered ==
    \A j, k \in 1..Len(output) :
        j < k /\ IsEvent(j) /\ IsEvent(k) => Ev(j).a <= Ev(k).a

\* Moreover a SilenceEnd that finds no pending start implies a start,
\* end - dur, that is not earlier than any event before it.
ImpliedStartsOrdered ==
    \A k \in 1..Len(output) :
        Ev(k).type = "end" /\ PendingBefore(k) = Nil =>
            \A j \in 1..(k - 1) : IsEvent(j) => Ev(j).a <= Ev(k).a - Ev(k).b

\* ------------------------------------------------------------------ claims

\* C1 as stated: a dangling SilenceStart(t) followed by a Progress(p) with
\* p > t yields exactly one synthesized interval {t, p, p - t}, appended
\* last; if p <= t, or no Progress follows that start, none is emitted (p is
\* the last Progress after the start).
C1_AsStated ==
    Accepted /\ Dangling # Nil =>
        LET n == Len(EndLines)
            t == Dangling[1]
            P == ProgressLines(DanglingLine + 1, Len(output))
            p == LastProgressIn(DanglingLine + 1, Len(output))
        IN  IF P # {} /\ p > t
            THEN /\ Len(retIntervals) = n + 1
                 /\ retIntervals[n + 1] = SilenceInterval(t, p, p - t)
            ELSE Len(retIntervals) = n

\* C1 (amended): a SilenceStart(t) still pending at the end of the input
\* yields exactly one synthesized interval {t, p, p - t}, appended last, when
\* p > t, where p is the timestamp of the last Progress of the whole input,
\* before or after the start (0 if there is none); if p <= t no interval is
\* emitted for the dangling start.
C1_TrailingSynthesis ==
    Accepted /\ Dangling # Nil =>
        LET n == Len(EndLines)
            t == Dangling[1]
            p == LastProgressIn(1, Len(output))
        IN  IF p > t
            THEN /\ Len(retIntervals) = n + 1
                 /\ retIntervals[n + 1] = SilenceInterval(t, p, p - t)
            ELSE Len(retIntervals) = n

\* A SilenceEnd, then a dangling start, then a later Progress: the interval
\* is synthesized after the closed one.
C1_Witness ==
    /\ Accepted
    /\ Dangling # Nil
    /\ Len(EndLines) = 1
    /\ ProgressLines(DanglingLine + 1, Len(output)) # {}
    /\ Len(retIntervals) = 2
    /\ retIntervals[2].Start = Dangling[1]

\* C2 as stated: every emitted interval has Duration = End - Start.
C2_AsStated ==
    Accepted =>
        \A k \in 1..Len(retIntervals) :
            retIntervals[k].Duration = retIntervals[k].End - retIntervals[k].Start

\* C2 (amended): an interval from a SilenceEnd(end, dur) has Duration = dur;
\* that is End - Start when the fallback start was used, and with a pending
\* start t exactly when dur = end - t; the interval synthesized at the end of
\* the stream has Duration = End - Start.
C2_DurationIdentity ==
    Accepted =>
        \A k \in 1..Len(retIntervals) :
            LET iv == retIntervals[k]
            IN  IF k <= Len(EndLines)
                THEN LET e == EndLines[k]
                         pend == PendingBefore(e)
                     IN  /\ iv.Duration = Ev(e).b
                         /\ pend = Nil => iv.Duration = iv.End - iv.Start
                         /\ pend # Nil =>
                              (iv.Duration = iv.End - iv.Start
                                  <=> Ev(e).b = Ev(e).a - pend[1])
                ELSE iv.Duration = iv.End - iv.Start

\* A fallback interval and a synthesized one in the same result.
C2_Witness ==
    /\ Accepted
    /\ Len(EndLines) = 1
    /\ PendingBefore(EndLines[1]) = Nil
    /\ Len(retIntervals) = 2
    /\ retIntervals[1].Duration > 0

\* C3: a SilenceEnd(end, dur) processed while no start is pending (none seen,
\* or the last one consumed by an earlier SilenceEnd) appends
\* {end - dur, end, dur}; with a start pending it appends {start, end, dur};
\* either way no start is pending afterwards.
C3_FallbackStart ==
    /\ currentStart = PendingBefore(i + 1)
    /\ LET ends == EndLinesUpTo(i)
       IN  /\ Len(intervals) >= Len(ends)
           /\ \A k \in 1..Len(ends) :
                LET e == ends[k]
                    pend == PendingBefore(e)
                IN  intervals[k] =
                        SilenceInterval(IF pend = Nil THEN Ev(e).a - Ev(e).b ELSE pend[1],
                                        Ev(e).a, Ev(e).b)

\* A start consumed by one SilenceEnd, and a second SilenceEnd that falls
\* back to end - dur.
C3_Witness ==
    /\ Len(EndLinesUpTo(i)) = 2
    /\ PendingBefore(EndLinesUpTo(i)[1]) # Nil
    /\ PendingBefore(EndLinesUpTo(i)[2]) = Nil
    /\ Len(intervals) = 2
    /\ currentStart = Nil

\* The intervals come in the order of their markers: the k-th is closed by
\* the k-th SilenceEnd, and a synthesized one comes last.
InMarkerOrder ==
    /\ Len(retIntervals) \in {Len(EndLines), Len(EndLines) + 1}
    /\ \A k \in 1..Len(EndLines) : retIntervals[k].End = Ev(EndLines[k]).a

StartsNonDecreasing ==
    \A k \in 1..(Len(retIntervals) - 1) :
        retIntervals[k].Start <= retIntervals[k + 1].Start

\* C4 as stated: for inputs whose event timestamps are non-decreasing, the
\* returned intervals are non-decreasing in Start and in marker order.
C4_AsStated ==
    Accepted /\ TimestampsOrdered => StartsNonDecreasing /\ InMarkerOrder

\* C4 (amended): for inputs whose event timestamps are non-decreasing and in
\* which every SilenceEnd(end, dur) that finds no pending start has end - dur
\* no earlier than the timestamps before it, the returned intervals are
\* non-decreasing in Start and in marker order.
C4_OrderPreservation ==
    Accepted /\ TimestampsOrdered /\ ImpliedStartsOrdered =>
        StartsNonDecreasing /\ InMarkerOrder

\* An ordered input with two intervals, the second from the fallback start.
C4_Witness ==
    /\ Accepted /\ TimestampsOrdered /\ ImpliedStartsOrdered
    /\ Len(EndLines) = 2
    /\ PendingBefore(EndLines[2]) = Nil
    /\ retIntervals[1].Start < retIntervals[2].Start

NonOverlapping ==
    \A k \in 1..(Len(retIntervals) - 1) :
        retIntervals[k + 1].Start >= retIntervals[k].End

\* C5 as stated: in every returned result each interval starts at or after
\* the end of the one before it.
C5_AsStated == Accepted => NonOverlapping

\* C5 (amended): for inputs whose event timestamps are non-decreasing and in
\* which every SilenceEnd(end, dur) that finds no pending start has end - dur
\* no earlier than the timestamps before it, each returned interval starts at
\* or after the end of the one before it.
C5_Chronological ==
    Accepted /\ TimestampsOrdered /\ ImpliedStartsOrdered => NonOverlapping

\* An ordered input whose second interval is the synthesized one.
C5_Witness ==
    /\ Accepted /\ TimestampsOrdered /\ ImpliedStartsOrdered
    /\ Len(EndLines) = 1
    /\ Len(retIntervals) = 2
    /\ retIntervals[2].Start >= retIntervals[1].End

\* C6 as stated: every emitted interval has Start >= 0 and End >= Start (the
\* patterns admit only non-negative numbers).
C6_AsStated ==
    Accepted =>
        \A k \in 1..Len(retIntervals) :
            retIntervals[k].Start >= 0 /\ retIntervals[k].End >= retIntervals[k].Start

\* C6 (amended): a synthesized interval has Start >= 0 and End > Start; an
\* interval closed by SilenceEnd(end, dur) with a pending start t has
\* Start >= 0, and End >= Start exactly when t <= end; one that used the
\* fallback start has End >= Start, and Start >= 0 exactly when dur <= end.
C6_WellFormedness ==
    Accepted =>
        \A k \in 1..Len(retIntervals) :
            LET iv == retIntervals[k]
            IN  IF k <= Len(EndLines)
                THEN LET e == EndLines[k]
                         pend == PendingBefore(e)
                     IN  IF pend = Nil
                         THEN /\ iv.End >= iv.Start
                              /\ iv.Start >= 0 <=> Ev(e).b <= Ev(e).a
                         ELSE /\ iv.Start >= 0
                              /\ iv.End >= iv.Start <=> pend[1] <= Ev(e).a
                ELSE iv.Start >= 0 /\ iv.End > iv.Start

\* A fallback interval with dur <= end and an interval closed with its
\* pending start, both well formed.
C6_Witness ==
    /\ Accepted
    /\ Len(EndLines) = 2
    /\ PendingBefore(EndLines[1]) = Nil
    /\ PendingBefore(EndLines[2]) # Nil
    /\ \A k \in 1..2 :
          retIntervals[k].Start >= 0 /\ retIntervals[k].End >= retIntervals[k].Start

\* A line that has one of the three shapes (the first that matches, in the
\* order start, end, progress) with a number the conversion rejects.
MalformedLine(rawLine) ==
    LET line == TrimSpace(rawLine)
        si == StartMatch(line)
        ei == EndMatch(line)
        ti == TimeMatch(line)
    IN  IF si # 0 THEN ~ParseFloat(Captured(line[si].t)).ok
        ELSE IF ei # 0 THEN \/ ~ParseFloat(Captured(line[ei].e)).ok
                            \/ ~ParseFloat(Captured(line[ei].d)).ok
        ELSE IF ti # 0 THEN ~ParseFloat(Captured(line[ti].s)).ok
        ELSE FALSE

IsMalformed == [line \in LineSet |-> MalformedLine(line)]

MalformedLines == {k \in 1..Len(output) : IsMalformed[output[k]]}

ProgressTimestamp(rawLine) ==
    LET line == TrimSpace(rawLine)
        f == line[TimeMatch(line)]
    IN  36000 * (10 * DigitVal(f.h[1]) + DigitVal(f.h[2]))
          + 600 * (10 * DigitVal(f.m[1]) + DigitVal(f.m[2]))
          + ParseFloat(Captured(f.s)).v

\* C10: after an accepted input the returned duration is the timestamp
\* HH*3600 + MM*60 + SS of the last Progress event in input order, whatever
\* the earlier ones were, and 0 when the input has no Progress event.
C10_InputDuration ==
    Accepted =>
        LET P == ProgressLines(1, Len(output))
        IN  retDuration = IF P = {} THEN 0 ELSE ProgressTimestamp(output[Max(P)])

\* Two Progress events, the later one earlier in time: the later one wins.
C10_Witness ==
    /\ Accepted
    /\ \E j, k \in ProgressLines(1, Len(output)) :
          /\ j < k
          /\ k = Max(ProgressLines(1, Len(output)))
          /\ Ev(k).a < Ev(j).a
          /\ retDuration = Ev(k).a

\* The points of [0, InputDuration] all lie within tol of the union of the
\* intervals (those with Start <= End; the others are empty).  The
\* neighbourhoods [Start - tol, End + tol] have integer ends, so a point left
\* out leaves out an integer or a half-integer: h counts halves.
Covered(res, tol) ==
    \A h \in 0..(2 * res.InputDuration) :
        \E k \in 1..Len(res.Intervals) :
            LET iv == res.Intervals[k]
            IN  /\ iv.Start <= iv.End
                /\ 2 * (iv.Start - tol) <= h
                /\ h <= 2 * (iv.End + tol)

\* The result is as the data model describes it: every End >= Start, and
\* every Start >= the End before it.
Chronological(res) ==
    /\ \A k \in 1..Len(res.Intervals) :
          res.Intervals[k].Start <= res.Intervals[k].End
    /\ \A k \in 1..(Len(res.Intervals) - 1) :
          res.Intervals[k].End <= res.Intervals[k + 1].Start

\* C8 as stated: with InputDuration > 0 and tolerance >= 0, FullySilent is
\* true if and only if every point of [0, InputDuration] lies within
\* tolerance of the union of the intervals (stated for the results the data
\* model describes, chronological and non-overlapping).
C8_AsStated ==
    fpc = "done" /\ r.InputDuration > 0 /\ tolerance >= 0 /\ Chronological(r) =>
        (fsResult <=> Covered(r, tolerance))

\* C8 (amended): with InputDuration > 0, tolerance >= 0 and intervals that
\* each have Start <= End, FullySilent returns true only if every point of
\* [0, InputDuration] lies within tolerance of the union of the intervals
\* (not conversely).
C8_FullySilentCovers ==
    LET proper == \A k \in 1..Len(r.Intervals) :
                      r.Intervals[k].Start <= r.Intervals[k].End
    IN  (fpc = "done" /\ r.InputDuration > 0 /\ tolerance >= 0 /\ proper)
            => (fsResult => Covered(r, tolerance))

\* A fully silent result with a gap, within the tolerance, between its two
\* intervals.
C8_Witness ==
    /\ fpc = "done"
    /\ fsResult
    /\ tolerance > 0
    /\ Len(r.Intervals) = 2
    /\ r.Intervals[1].Start <= r.Intervals[1].End
    /\ r.Intervals[2].Start <= r.Intervals[2].End
    /\ r.Intervals[2].Start > r.Intervals[1].End
    /\ Covered(r, tolerance)

\* C9: FullySilent is false if InputDuration <= 0 or there is no interval;
\* false if the first Start > tolerance; false if some next.Start - prev.End
\* > tolerance (an overlap is accepted); false if last.End differs from
\* InputDuration by more than tolerance, either way; true otherwise.
C9_RuleList ==
    fpc = "done" =>
        LET ivs == r.Intervals
            n   == Len(ivs)
        IN  fsResult <=>
              /\ ~(r.InputDuration <= 0 \/ n = 0)
              /\ ~(ivs[1].Start > tolerance)
              /\ \A k \in 1..(n - 1) : ~(ivs[k + 1].Start - ivs[k].End > tolerance)
              /\ ~(ivs[n].End - r.InputDuration > tolerance)
              /\ ~(r.InputDuration - ivs[n].End > tolerance)

\* Two overlapping intervals, found fully silent.
C9_Witness ==
    /\ fpc = "done"
    /\ fsResult
    /\ Len(r.Intervals) = 2
    /\ r.Intervals[2].Start < r.Intervals[1].End

\* The lines of the input that match none of the three shapes (blank ones
\* included).
IsNoise(k) == Ev(k).type \in {"blank", "none"}

\* The input without its noise lines.
RECURSIVE WithoutNoise(_)
WithoutNoise(n) ==
    IF n = 0 THEN <<>>
    ELSE IF IsNoise(n) THEN WithoutNoise(n - 1)
    ELSE Append(WithoutNoise(n - 1), output[n])

\* What the call returned.
Returned == ParseResult(retIntervals, retDuration, retErr)

\* C11: an input with no line, or with blank lines only, returns no
\* intervals, duration 0 and no error; and any input returns what the same
\* input without its non-matching lines returns (intervals, duration and
\* error).
C11_EmptyAndNoise ==
    pc = "done" =>
        /\ (\A k \in 1..Len(output) : Ev(k).type = "blank")
              => Returned = ParseResult(<<>>, 0, NoErr)
        /\ Returned = parseSilenceOutput(WithoutNoise(Len(output)))

\* A non-matching line between a SilenceStart and the SilenceEnd that closes
\* it, and a blank line.
C11_Witness ==
    /\ Accepted
    /\ Len(output) = 3
    /\ Ev(1).type = "start"
    /\ Ev(2).type = "none"
    /\ Ev(3).type = "end"
    /\ Len(retIntervals) = 1
    /\ retIntervals[1].Start = Ev(1).a

\* C17: a step of the loop consumes exactly the next line, and has the
\* effect of at most one event, that of the first shape the line matches in
\* the order start, end, progress: a line matching the start shape only sets
\* the pending start, whatever else it carries; one matching the end shape
\* and not the start shape only appends an interval and clears the pending
\* start; one matching the progress shape alone only sets the progress; a
\* line matching none changes nothing.
C17_LineClassification ==
    [][ pc = "scan" /\ i < Len(output) =>
          LET line == TrimSpace(output[i + 1])
              s == StartMatch(line) # 0
              e == EndMatch(line) # 0
              t == TimeMatch(line) # 0
              failed == pc' = "done"
          IN  /\ IF failed THEN i' = i /\ MalformedLine(output[i + 1])
                           ELSE i' = i + 1
              /\ ~failed /\ s =>
                    /\ currentStart' = <<ParseFloat(Captured(line[StartMatch(line)].t)).v>>
                    /\ intervals' = intervals
                    /\ lastProgress' = lastProgress
              /\ ~failed /\ ~s /\ e =>
                    /\ Len(intervals') = Len(intervals) + 1
                    /\ SubSeq(intervals', 1, Len(intervals)) = intervals
                    /\ intervals'[Len(intervals')].End =
                          ParseFloat(Captured(line[EndMatch(line)].e)).v
                    /\ currentStart' = Nil
                    /\ lastProgress' = lastProgress
              /\ ~failed /\ ~s /\ ~e /\ t =>
                    /\ lastProgress' = ProgressTimestamp(output[i + 1])
                    /\ intervals' = intervals
                    /\ currentStart' = currentStart
              /\ ~failed /\ ~s /\ ~e /\ ~t =>
                    /\ intervals' = intervals
                    /\ currentStart' = currentStart
                    /\ lastProgress' = lastProgress
      ]_vars

\* The line carrying all three markers was consumed as a SilenceStart alone.
C17_Witness ==
    /\ pc = "scan"
    /\ i = 1
    /\ LET line == TrimSpace(output[1])
       IN  StartMatch(line) # 0 /\ EndMatch(line) # 0 /\ TimeMatch(line) # 0
    /\ currentStart # Nil
    /\ intervals = <<>>
    /\ lastProgress = 0

\* C19: a SilenceStart(b) that arrives while SilenceStart(a) is pending
\* replaces it: a yields no interval and no error (the intervals are those of
\* the SilenceEnd events seen so far), b is the pending start until the next
\* start or end, and the SilenceEnd that follows b, or the end-of-stream
\* synthesis, starts its interval at b.
C19_NewStartWins ==
    \A b \in 1..i :
        Ev(b).type = "start" /\ PendingBefore(b) # Nil =>
            LET later == {k \in (b + 1)..i : Ev(k).type \in {"start", "end"}}
                ends  == EndLinesUpTo(i)
            IN  /\ Ev(b).err = NoErr
                /\ Len(intervals) >= Len(ends)
                /\ Len(EndLinesUpTo(b)) = Len(EndLinesUpTo(b - 1))
                /\ later = {} /\ pc = "scan" => currentStart = <<Ev(b).a>>
                /\ later # {} /\ Ev(Min(later)).type = "end" =>
                      intervals[Len(EndLinesUpTo(Min(later)))].Start = Ev(b).a
                /\ later = {} /\ Accepted /\ Len(intervals) > Len(ends) =>
                      intervals[Len(intervals)].Start = Ev(b).a

\* Two starts in a row, then the SilenceEnd: one interval, from the second.
C19_Witness ==
    /\ i = 3
    /\ Ev(1).type = "start" /\ Ev(2).type = "start" /\ Ev(3).type = "end"
    /\ Ev(1).a # Ev(2).a
    /\ Len(intervals) = 1
    /\ intervals[1].Start = Ev(2).a

\* A trailing interval is synthesized for this input.
Synthesized == Dangling # Nil /\ LastProgressIn(1, Len(output)) > Dangling[1]

\* C20: no step removes or changes an interval already appended; the step
\* that consumes a SilenceEnd(end, dur) appends exactly one interval, ending
\* at end with duration dur; and an accepted input returns as many intervals
\* as it has SilenceEnd events, plus one if and only if a trailing interval
\* is synthesized.
C20_NoMerging ==
    [][ /\ Len(intervals') >= Len(intervals)
        /\ SubSeq(intervals', 1, Len(intervals)) = intervals
        /\ (i' = i + 1 /\ Ev(i + 1).type = "end") =>
              /\ Len(intervals') = Len(intervals) + 1
              /\ intervals'[Len(intervals')].End = Ev(i + 1).a
              /\ intervals'[Len(intervals')].Duration = Ev(i + 1).b
        /\ (pc' = "done" /\ retErr' = NoErr) =>
              /\ retIntervals' = intervals'
              /\ Len(retIntervals') = Len(EndLines) + (IF Synthesized THEN 1 ELSE 0)
      ]_vars

\* Two SilenceEnd events whose intervals overlap, both returned.
C20_Witness ==
    /\ Accepted
    /\ Len(EndLines) = 2
    /\ Len(retIntervals) = 2
    /\ retIntervals[2].Start <= retIntervals[1].End

\* DetectSilence was called with a configuration it must reject.
InvalidConfiguration == inputPath = "" \/ options.MinSilenceDuration <= 0

\* C12: a call with MinSilenceDuration <= 0, or with an empty input path,
\* never invokes the command runner and never parses anything, at any step;
\* and it returns an error with the zero DetectionResult.
C12_InvalidConfiguration ==
    dpc # "idle" /\ InvalidConfiguration =>
        /\ calls = <<>>
        /\ parsed = <<>>
        /\ dpc \in {"entry", "done"}
        /\ dpc = "done" => dsErr # NoErr /\ dsResult = DetectionResult(<<>>, 0)

\* A call with a good path and a duration of zero has returned.
C12_Witness ==
    /\ dpc = "done"
    /\ inputPath # ""
    /\ options.MinSilenceDuration = 0
    /\ dsErr = "minimum silence duration must be greater than zero"
    /\ runErr = NoErr
    /\ runOutput # <<>>

\* C13: when the command runner returns an error, DetectSilence returns the
\* error "ffmpeg execution failed" wrapping it, with the zero DetectionResult,
\* and the output is never parsed, whatever markers it holds.
C13_RunnerFailure ==
    calls # <<>> /\ runErr # NoErr =>
        /\ parsed = <<>>
        /\ dpc = "done"
        /\ dsErr = "ffmpeg execution failed"
        /\ dsWraps = runErr
        /\ dsResult = DetectionResult(<<>>, 0)

\* The runner failed after printing a complete silence interval.
C13_Witness ==
    /\ dpc = "done"
    /\ calls # <<>>
    /\ runErr # NoErr
    /\ parseSilenceOutput(runOutput).Err = NoErr
    /\ Len(parseSilenceOutput(runOutput).Intervals) = 1
    /\ dsResult.Intervals = <<>>

\* The text FormatFloat gives each level and duration of the inputs.
NumberText ==
    [v \in NoiseLevelSet \cup MinSilenceDurationSet |->
        CASE v = -300 -> <<"-", "3", "0">>
          [] v = -255 -> <<"-", "2", "5", ".", "5">>
          [] v = -5   -> <<"-", "0", ".", "5">>
          [] v = 0    -> <<"0">>
          [] v = 5    -> <<"0", ".", "5">>
          [] v = 20   -> <<"2">>]

\* The one invocation a valid call makes: the binary is "ffmpeg" or the
\* WithFFmpegPath value, the arguments are the seven of the claim.
InvokedOnce ==
    /\ Len(calls) = 1
    /\ calls[1].name = IF opts = <<>> THEN "ffmpeg" ELSE opts[Len(opts)]
    /\ calls[1].args =
          << "-i", inputPath, "-af",
             <<"silencedetect=noise=">> \o NumberText[options.NoiseLevel]
                \o <<"dB:d=">> \o NumberText[options.MinSilenceDuration],
             "-f", "null", "-" >>

\* The result DetectSilence returned is the parse of the runner's output.
ResultIsParse ==
    LET p == parseSilenceOutput(runOutput)
    IN  dsResult = DetectionResult(p.Intervals, p.Duration)

\* C14 as stated: every call with a non-empty input path and a positive
\* MinSilenceDuration invokes the runner once, with the configured binary
\* and the seven arguments, and returns the parse of that call's output.
C14_AsStated ==
    dpc = "done" /\ ~InvalidConfiguration => InvokedOnce /\ ResultIsParse

\* C14: every call with a non-empty input path and a positive
\* MinSilenceDuration invokes the runner exactly once, with the configured
\* binary and the seven arguments; when the runner returns no error the
\* output is parsed once and the result is the parse of exactly that output.
C14_AnalyzerInvocation ==
    /\ dpc \in {"parse", "done"} /\ ~InvalidConfiguration => InvokedOnce
    /\ dpc = "done" /\ ~InvalidConfiguration /\ runErr = NoErr =>
          /\ parsed = <<runOutput>>
          /\ ResultIsParse
          /\ dsErr = parseSilenceOutput(runOutput).Err
    /\ Len(calls) <= 1

\* A detector built with WithFFmpegPath ran its binary and returned the one
\* interval its output describes.
C14_Witness ==
    /\ dpc = "done"
    /\ opts # <<>>
    /\ Len(calls) = 1
    /\ calls[1].name = opts[1]
    /\ options = DetectionOptions(-255, 5)
    /\ dsErr = NoErr
    /\ Len(dsResult.Intervals) = 1
    /\ dsResult.InputDuration > 0

\* A fully-silent verdict is on stdout: the fully_silent member of the JSON
\* report, or one of the two "Entire file" lines of the text report.
VerdictEmitted ==
    \E k \in 1..Len(stdout) :
        \/ stdout[k].line = "json" /\ stdout[k].fully_silent # <<>>
        \/ stdout[k].line \in {"Entire file is silent.", "Entire file is not silent."}

\* C15: when the verdict was requested and the detection returned a result
\* whose InputDuration is not positive, main writes nothing to stdout, in
\* either format, and exits with status 1 after a message on stderr; and a
\* verdict is on stdout only when it was requested and InputDuration > 0.
C15_InsufficientDurationInfo ==
    /\ (checkFullSilence /\ dpc = "done" /\ dsErr = NoErr
            /\ dsResult.InputDuration <= 0) =>
          /\ stdout = <<>>
          /\ cpc \in {"detect", "duration", "exited"}
          /\ cpc = "exited" => exitCode = 1 /\ stderr # <<>>
    /\ VerdictEmitted => checkFullSilence /\ dsResult.InputDuration > 0

\* A JSON run that asked for the verdict, found an interval and no duration,
\* and exited with status 1.
C15_Witness ==
    /\ cpc = "exited"
    /\ requestedFormat = "json"
    /\ checkFullSilence
    /\ dsErr = NoErr
    /\ Len(dsResult.Intervals) = 1
    /\ dsResult.InputDuration = 0
    /\ exitCode = 1
    /\ stdout = <<>>

\* The locals of a call that runs alone on lines, after n of its steps.
RECURSIVE AloneAfter(_, _)
AloneAfter(lines, n) ==
    IF n = 0 THEN LocalInit(lines) ELSE LocalStep(AloneAfter(lines, n - 1))

\* C16: under every interleaving, the locals of each call (its pending
\* start, lastProgress and intervals) are at every moment those of the same
\* call running alone on its own input, and a call that has returned has
\* returned what it returns alone.
C16_IndependentRuns ==
    \A p \in DOMAIN runs :
        LET lines == runs[p].output
        IN  /\ \E n \in 0..(Len(lines) + 1) : runs[p] = AloneAfter(lines, n)
            /\ runs[p].pc = "done" => runs[p].ret = parseSilenceOutput(lines)

\* Two calls on different inputs have both returned, one an interval and a
\* duration, the other an error.
C16_Witness ==
    /\ DOMAIN runs = Runs
    /\ runs["a"].pc = "done" /\ runs["b"].pc = "done"
    /\ runs["a"].ret.Err = NoErr
    /\ Len(runs["a"].ret.Intervals) = 1
    /\ runs["a"].ret.Duration > 0
    /\ runs["b"].ret.Err # NoErr

\* The value of the last SetThreshold among the first n calls, 0.01 (ten
\* thousandths) when there is none.
LastSet(n) ==
    LET sets == {k \in 1..n : thCalls[k].op = "SetThreshold"}
    IN  IF sets = {} THEN 10 ELSE thCalls[Max(sets)].arg

\* C18: a new Detector has threshold 0.01; every GetThreshold returns the
\* value of the latest SetThreshold before it (0.01 when there is none);
\* every IsSilent(level) returns whether level is strictly below that value,
\* so false at the threshold itself; and the threshold is at all times the
\* latest value set, whatever IsSilent and GetThreshold calls came after.
C18_ThresholdDetector ==
    /\ threshold = LastSet(Len(thCalls))
    /\ \A k \in 1..Len(thCalls) :
          /\ thCalls[k].op = "GetThreshold" => thCalls[k].value = LastSet(k - 1)
          /\ thCalls[k].op = "IsSilent" =>
                /\ thCalls[k].silent = (thCalls[k].arg < LastSet(k - 1))
                /\ thCalls[k].arg = LastSet(k - 1) => ~thCalls[k].silent

\* SetThreshold(0.05), IsSilent(0.05), GetThreshold: false, then 0.05.
C18_Witness ==
    /\ Len(thCalls) = 3
    /\ thCalls[1] = Call("SetThreshold", 50, 0, FALSE)
    /\ thCalls[2] = Call("IsSilent", 50, 0, FALSE)
    /\ thCalls[3] = Call("GetThreshold", 0, 50, FALSE)
    /\ threshold = 50

\* The first n lines of the input, parsed on their own.
PrefixResult(n) == parseSilenceOutput(SubSeq(output, 1, n))

\* What C21 says of the prefix of n lines, but for the duration: it is
\* accepted, its intervals of SilenceEnd events are the first intervals of
\* the full result, and it has at most one interval more, synthesized for
\* the start pending at the cut and ending at the prefix's own duration.
PrefixAgrees(n) ==
    LET p == PrefixResult(n)
        m == Len(EndLinesUpTo(n))
    IN  /\ p.Err = NoErr
        /\ Len(p.Intervals) \in {m, m + 1}
        /\ m <= Len(retIntervals)
        /\ SubSeq(p.Intervals, 1, m) = SubSeq(retIntervals, 1, m)
        /\ Len(p.Intervals) = m + 1 =>
              /\ PendingBefore(n + 1) # Nil
              /\ p.Intervals[m + 1] =
                    SilenceInterval(PendingBefore(n + 1)[1], p.Duration,
                                    p.Duration - PendingBefore(n + 1)[1])

\* C21 as stated: every prefix of an accepted input agrees with the full
\* result as above, and its duration is the full duration or a smaller one.
C21_AsStated ==
    Accepted =>
        \A n \in 0..Len(output) :
            PrefixAgrees(n) /\ PrefixResult(n).Duration <= retDuration

\* C21 (amended): every prefix of an accepted input is accepted, its
\* intervals of SilenceEnd events are the first intervals of the full result,
\* it has at most one more interval, synthesized for the start pending at the
\* cut, and its duration is the timestamp of the last Progress inside the
\* prefix (0 if none), which is larger than the full duration when a later
\* Progress carries a smaller timestamp.
C21_TruncatedInput ==
    Accepted =>
        \A n \in 0..Len(output) :
            PrefixAgrees(n) /\ PrefixResult(n).Duration = LastProgressIn(1, n)

\* An input cut after its dangling start and the progress that follows: the
\* prefix has the closed interval of the full result and a synthesized one
\* the full result, which goes on to the SilenceEnd, does not have.
C21_Witness ==
    /\ Accepted
    /\ Len(output) = 3
    /\ Ev(1).type = "start" /\ Ev(2).type = "progress" /\ Ev(3).type = "end"
    /\ Len(retIntervals) = 1
    /\ Len(PrefixResult(2).Intervals) = 1
    /\ PrefixResult(2).Intervals[1] # retIntervals[1]
    /\ PrefixResult(2).Intervals[1].End = PrefixResult(2).Duration

\* The intervals returned beyond those of the SilenceEnd events: the
\* synthesized ones.
SynthesizedCount == Len(retIntervals) - Len(EndLines)

\* C22: an accepted input returns at most one interval beyond those of its
\* SilenceEnd events; that interval is the last of the list, it starts at
\* the start still pending at the end of the input, its End is the returned
\* duration and its Duration is End - Start > 0; the pending start it closes
\* comes after every SilenceEnd, so no start is closed twice, and a
\* SilenceEnd leaves no start pending behind it.
C22_SynthesizedShape ==
    /\ (pc = "scan" /\ i >= 1 /\ Ev(i).type = "end") => currentStart = Nil
    /\ Accepted =>
          /\ SynthesizedCount \in {0, 1}
          /\ SynthesizedCount = 1 =>
                LET last == retIntervals[Len(retIntervals)]
                IN  /\ Dangling # Nil
                    /\ \A k \in 1..Len(output) :
                          Ev(k).type = "end" => k < DanglingLine
                    /\ last.Start = Dangling[1]
                    /\ last.End = retDuration
                    /\ last.End > last.Start
                    /\ last.Duration = last.End - last.Start
                    /\ last.Duration > 0

\* A SilenceEnd, then a start closed by the end of the stream: two
\* intervals, the synthesized one last.
C22_Witness ==
    /\ Accepted
    /\ Len(output) = 3
    /\ Ev(1).type = "end" /\ Ev(2).type = "start" /\ Ev(3).type = "progress"
    /\ Len(retIntervals) = 2
    /\ retIntervals[2].End = retDuration
    /\ retIntervals[2].Start = Ev(2).a

====
